---------------------------- MODULE Spec2Model ----------------------------
(***************************************************************************)
(* Model of the SuperConfig FFI benchmark scripts:                         *)
(*   crates-archive/superconfig-ffi/reference/benchmark_python.py          *)
(*   crates-archive/superconfig-ffi/reference/simple_python_benchmark.py   *)
(*                                                                         *)
(* Durations are integers (nanoseconds).  The scripts work on floats in    *)
(* milliseconds; a float is modelled by the exact rational it stands for,  *)
(* a pair <<num, den>> in lowest terms.  IEEE rounding is monotone, so     *)
(* every order (<=) the model derives holds of the floats as well.  The    *)
(* one place where the rounding decides an integer result, the percentile  *)
(* index int(n * 0.95), is modelled bit-exactly (FloatMulInt).             *)
(***************************************************************************)
EXTENDS Integers, Sequences, FiniteSets, TLC

VARIABLES
    script,            \* which entry point runs: "benchmark_python" | "simple_python_benchmark" | "stats"
    pc,                \* position of the running script
    PYTHON_AVAILABLE,  \* import superconfig_ffi succeeded
    hung,              \* "none" | "python" | "node": an invocation that has not returned
    warm,              \* warmup invocations completed in run_benchmark
    results,           \* PythonBenchmark.results
    executed,          \* history: durations measured, in execution order
    python_results,    \* main(): python_results
    nodejs_results,    \* main(): nodejs_results
    report,            \* what print_comprehensive_results printed
    exit_code,         \* process exit status, -1 while running
    times,             \* argument of calculate_stats (statistics harness)
    startup_times,     \* simple benchmark: startup_times
    operation_times,   \* simple benchmark: operation_times
    startup_stats,     \* simple benchmark: startup_stats
    operation_stats,   \* simple benchmark: operation_stats
    ranking,           \* simple benchmark: results list after results.sort
    uncaught,          \* exception that ended the script, "none" otherwise
    summary,           \* statistics harness: value of calculate_stats(times)
    simple_summary     \* statistics harness: value of calc_stats(startup_times)

vars == <<script, pc, PYTHON_AVAILABLE, hung, warm, results, executed,
          python_results, nodejs_results, report, exit_code, times,
          startup_times, operation_times, startup_stats, operation_stats,
          ranking, uncaught, summary, simple_summary>>

---------------------------------------------------------------------------
(* Bounds of the model *)

\* measured startup iterations (the scripts run 50 / 100)
StartupIterations == 2
\* measured operation iterations (the scripts run 1000)
OperationIterations == 2
\* longest sample list handed to the statistics routines
MaxLen == 22
\* longest sample list enumerated exhaustively
MaxExhaustiveLen == 3
\* largest duration of an exhaustive list, in half milliseconds
MaxTick == 2
\* largest step between consecutive samples of a patterned list
MaxStride == 3

(* Program constants *)

WarmupIterations == 5
NsPerMs == 1000000
PythonFileSizeKb == 681
NapiFileSizeKb == 607

---------------------------------------------------------------------------
(* Python values *)

\* the one element of a singleton set; "v \in {e}" names the value of e
Only(S) == CHOOSE v \in S : TRUE

None == [kind |-> "None"]
Raise(e) == [kind |-> "raise", error |-> e]
Truthy(x) == x.kind = "dict"
Range(s) == {s[i] : i \in 1..Len(s)}

(* Floats as exact rationals <<num, den>>, num >= 0, den > 0, lowest terms *)

RECURSIVE GCD(_, _)
GCD(a, b) == IF b = 0 THEN a ELSE GCD(b, a % b)

Norm(n, d) == LET g == GCD(n, d) IN <<n \div g, d \div g>>
Zero == <<0, 1>>
One == <<1, 1>>
RatLeq(x, y) ==
    LET g == GCD(x[2], y[2]) IN x[1] * (y[2] \div g) <= y[1] * (x[2] \div g)
RatLt(x, y) ==
    LET g == GCD(x[2], y[2]) IN x[1] * (y[2] \div g) < y[1] * (x[2] \div g)
RatAdd(x, y) ==
    LET g == GCD(x[2], y[2])
    IN  Norm(x[1] * (y[2] \div g) + y[1] * (x[2] \div g), (x[2] \div g) * y[2])
RatDivInt(x, n) == Norm(x[1], x[2] * n)
\* x / y for y > 0
RatDiv(x, y) == Norm(x[1] * y[2], x[2] * y[1])

\* t / 1_000_000
ToMs(t) == Norm(t, NsPerMs)

\* [t / 1_000_000 for t in times]
TimesMs(ts) == [i \in 1..Len(ts) |-> ToMs(ts[i])]

---------------------------------------------------------------------------
(* list.sort(), min(), max(), statistics.mean, statistics.median *)

RECURSIVE InsertSorted(_, _)
InsertSorted(s, x) ==
    IF s = <<>> THEN <<x>>
    ELSE IF RatLt(x, Head(s)) THEN <<x>> \o s
    ELSE <<Head(s)>> \o InsertSorted(Tail(s), x)

RECURSIVE SortAsc(_)
SortAsc(s) ==
    IF s = <<>> THEN <<>>
    ELSE Only({InsertSorted(front, last) :
                 front \in {SortAsc(SubSeq(s, 1, Len(s) - 1))},
                 last \in {s[Len(s)]}})

MinOf(s) == CHOOSE x \in Range(s) : \A y \in Range(s) : RatLeq(x, y)
MaxOf(s) == CHOOSE x \in Range(s) : \A y \in Range(s) : RatLeq(y, x)

RECURSIVE RatSum(_)
RatSum(s) ==
    IF s = <<>> THEN Zero
    ELSE Only({RatAdd(Head(s), rest) : rest \in {RatSum(Tail(s))}})

Mean(s) == RatDivInt(RatSum(s), Len(s))

MedianOfSorted(s) ==
    LET n == Len(s)
    IN  IF n % 2 = 1 THEN s[(n + 1) \div 2]
        ELSE RatDivInt(RatAdd(s[n \div 2], s[n \div 2 + 1]), 2)

\* statistics.median sorts its argument itself
Median(data) == Only({MedianOfSorted(s) : s \in {SortAsc(data)}})

---------------------------------------------------------------------------
(* int(n * p) for a double p = (a * 2^36 + b * 2^18 + c) / 2^53 in          *)
(* [0.5, 1) and an integer 1 <= n < 4096: the exact product is rounded to  *)
(* 53 significant bits, ties to even, and int() truncates the result.      *)

Pow2(k) == 2 ^ k

RECURSIVE BitLen(_)
BitLen(x) == IF x = 0 THEN 0 ELSE 1 + BitLen(x \div 2)

\* the exact product n * p as three limbs <<hi, b1, c1>> = hi * 2^36 + b1 * 2^18 + c1
ExactProduct(n, a, b, c) ==
    LET lo  == n * c
        mid == n * b + lo \div Pow2(18)
    IN  <<n * a + mid \div Pow2(18), mid % Pow2(18), lo % Pow2(18)>>

\* the product rounded at its d lowest bits (ties to even), then truncated
RoundAndTruncate(hi, b1, c1, d) ==
    LET q   == c1 \div Pow2(d)
        r   == c1 % Pow2(d)
        up  == d > 0 /\ (2 * r > Pow2(d) \/ (2 * r = Pow2(d) /\ q % 2 = 1))
        c2  == (IF up THEN q + 1 ELSE q) * Pow2(d)
        b2  == IF c2 = Pow2(18) THEN b1 + 1 ELSE b1
        hi2 == IF b2 = Pow2(18) THEN hi + 1 ELSE hi
    IN  hi2 \div Pow2(17)

FloatMulInt(n, a, b, c) ==
    Only({RoundAndTruncate(p[1], p[2], p[3], d) :
            <<p, d>> \in {<<x, BitLen(x[1]) - 17>> : x \in {ExactProduct(n, a, b, c)}}})

\* int((n - 1) * 0.95): the index taken over n - 1 instead of n
P95IndexOfLast(n) ==
    IF n <= 1 THEN 0 ELSE FloatMulInt(n - 1, 124518, 104857, 157286)

\* int(n * 0.95): 0.95 is the double 0x1E666666666666 / 2^53
P95Index(n) == FloatMulInt(n, 124518, 104857, 157286)
\* int(n * 0.99): 0.99 is the double 0x1FAE147AE147AE / 2^53
P99Index(n) == FloatMulInt(n, 129761, 73400, 83886)

---------------------------------------------------------------------------
(* PythonBenchmark.calculate_stats.  "stddev" is left out: it is a square  *)
(* root that no later step of the scripts reads.                           *)

\* the list converted but left unsorted
UnsortedTimesMs(ts) == TimesMs(ts)

\* times_ms = [t / 1_000_000 for t in times]; times_ms.sort()
SortedTimesMs(ts) == SortAsc(TimesMs(ts))

\* a routine that answers an empty list with a summary of zeros
ZeroFilledStats(times_ms) ==
    LET n == Len(times_ms)
    IN  [kind |-> "dict", count |-> n,
         min |-> IF n > 0 THEN MinOf(times_ms) ELSE Zero,
         max |-> IF n > 0 THEN MaxOf(times_ms) ELSE Zero,
         avg |-> IF n > 0 THEN Mean(times_ms) ELSE Zero,
         median |-> IF n > 0 THEN Median(times_ms) ELSE Zero,
         p95 |-> IF n > 0 THEN times_ms[P95Index(n) + 1] ELSE Zero,
         p99 |-> IF n > 0 THEN times_ms[P99Index(n) + 1] ELSE Zero]

CalculateStatsZeroFilled(ts) ==
    Only({ZeroFilledStats(times_ms) : times_ms \in {SortedTimesMs(ts)}})

\* the dict calculate_stats builds from the sorted times_ms
StatsDict(times_ms) ==
    LET n == Len(times_ms)
    IN  [kind |-> "dict", count |-> n,
         min |-> MinOf(times_ms),
         max |-> MaxOf(times_ms),
         avg |-> Mean(times_ms),
         median |-> Median(times_ms),
         p95 |-> IF n > 0 THEN times_ms[P95Index(n) + 1] ELSE Zero,
         p99 |-> IF n > 0 THEN times_ms[P99Index(n) + 1] ELSE Zero]

CalculateStats(ts) ==
    IF ts = <<>> THEN None
    ELSE Only({StatsDict(times_ms) : times_ms \in {SortedTimesMs(ts)}})

(* calc_stats of the simple benchmark: sorts its argument in place, then   *)
(* min(times) raises ValueError on an empty list.  The value is the pair   *)
(* of what the call returns (or raises) and the argument list afterwards.  *)
CalcStatsOnSorted(sorted) ==
    LET n == Len(sorted)
    IN  [times |-> sorted,
         ret |-> IF n = 0 THEN Raise("ValueError")
                 ELSE [kind |-> "dict",
                       min |-> MinOf(sorted),
                       max |-> MaxOf(sorted),
                       avg |-> Mean(sorted),
                       median |-> Median(sorted),
                       p95 |-> IF n > 0 THEN sorted[P95Index(n) + 1] ELSE Zero,
                       p99 |-> IF n > 0 THEN sorted[P99Index(n) + 1] ELSE Zero]]

CalcStats(ts) == Only({CalcStatsOnSorted(sorted) : sorted \in {SortAsc(ts)}})

---------------------------------------------------------------------------
(* benchmark_python.py: PythonBenchmark.run_benchmark                      *)

\* durations a timed call can take, in nanoseconds
Durations == {0, 2 * NsPerMs}

\* the sample is put in front of the list
PrependSample(res, key, t) == [res EXCEPT ![key] = <<t>> \o @]

\* self.results[key].append(measurement["time_ns"])
AppendSample(res, key, t) == [res EXCEPT ![key] = Append(@, t)]

\* the value run_benchmark returns
RunBenchmarkResult(res) ==
    [kind |-> "dict",
     startup |-> CalculateStats(res.startup),
     operations |-> CalculateStats(res.operations),
     file_size_kb |-> PythonFileSizeKb]

(* The Node.js script of run_nodejs_benchmark: calcStats sorts the times   *)
(* numerically and takes p95 at Math.floor(n * 0.95).                      *)
JsStatsOnSorted(sorted) ==
    LET n == Len(sorted)
    IN  [min |-> sorted[1],
         max |-> sorted[n],
         avg |-> Mean(sorted),
         median |-> MedianOfSorted(sorted),
         p95 |-> sorted[P95Index(n) + 1]]

JsCalcStats(ts) == Only({JsStatsOnSorted(sorted) : sorted \in {SortAsc(ts)}})

\* results.napi of a run in which the addon loaded
NapiResults(startupTimes, opTimes) ==
    [kind |-> "dict",
     startup |-> JsCalcStats(TimesMs(startupTimes)),
     operations |-> JsCalcStats(TimesMs(opTimes)),
     file_size_kb |-> NapiFileSizeKb]

\* results.napi = { error: error.message }
NapiError == [kind |-> "dict", error |-> "Cannot find module"]

---------------------------------------------------------------------------
(* benchmark_python.py: print_comprehensive_results                        *)

\* figures "from previous benchmark", in milliseconds
wasi_startup_avg == <<1203, 1000>>
wasi_startup_median == <<1059, 1000>>
wasi_startup_p95 == <<499, 250>>
wasi_ops_avg == <<99, 250>>
wasi_ops_median == <<23, 100>>

\* min(a, b, c)
Min3(a, b, c) ==
    IF RatLeq(a, b) /\ RatLeq(a, c) THEN a
    ELSE IF RatLeq(b, c) THEN b ELSE c

\* the if / elif / else that prints the "Fastest" column
FastestLabel(py, napi, wasi) ==
    LET fastest == Min3(py, napi, wasi)
    IN  IF fastest = py THEN "Python"
        ELSE IF fastest = napi THEN "NAPI"
        ELSE "WASI"

SizeLine(res) ==
    IF Truthy(res) THEN [kind |-> "kb", value |-> res.file_size_kb]
    ELSE [kind |-> "N/A"]

StartupSection(py, napi) ==
    [kind |-> "dict",
     Python |-> [avg |-> py.avg, median |-> py.median, p95 |-> py.p95],
     NAPI |-> [avg |-> napi.avg, median |-> napi.median, p95 |-> napi.p95],
     fastest_avg |-> FastestLabel(py.avg, napi.avg, wasi_startup_avg),
     fastest_median |-> FastestLabel(py.median, napi.median, wasi_startup_median),
     fastest_p95 |-> FastestLabel(py.p95, napi.p95, wasi_startup_p95)]

OperationsSection(py, napi) ==
    [kind |-> "dict",
     Python |-> [avg |-> py.avg, median |-> py.median],
     NAPI |-> [avg |-> napi.avg, median |-> napi.median],
     fastest_avg |-> FastestLabel(py.avg, napi.avg, wasi_ops_avg),
     fastest_median |-> FastestLabel(py.median, napi.median, wasi_ops_median)]

\* x / fastest for each of the three, defined for fastest > 0
Ratios(py, napi, wasi) ==
    LET fastest == Min3(py, napi, wasi)
    IN  [kind |-> "dict",
         Python |-> RatDiv(py, fastest),
         NAPI |-> RatDiv(napi, fastest),
         WASI |-> RatDiv(wasi, fastest)]

NothingPrinted ==
    [kind |-> "report", python_size |-> None, napi_size |-> None,
     startup |-> None, operations |-> None, startup_ratios |-> None,
     operation_ratios |-> None, summary |-> FALSE]

(* What the call prints, and the exception that ends it ("none" when it    *)
(* returns).  Output printed before an exception stays printed.            *)
PrintComprehensiveResults(py, node) ==
    LET sizes == [NothingPrinted EXCEPT !.python_size = SizeLine(py)]
    IN  IF Truthy(node) /\ "file_size_kb" \notin DOMAIN node
        THEN [error |-> "KeyError", printed |-> sizes]
        ELSE
        LET sized == [sizes EXCEPT !.napi_size = SizeLine(node)]
        IN  IF ~(Truthy(py) /\ Truthy(node))
            THEN [error |-> "none", printed |-> [sized EXCEPT !.summary = TRUE]]
            ELSE
            LET tables == [sized EXCEPT
                    !.startup = StartupSection(py.startup, node.startup),
                    !.operations = OperationsSection(py.operations, node.operations)]
                s_fastest == Min3(py.startup.avg, node.startup.avg, wasi_startup_avg)
                o_fastest == Min3(py.operations.avg, node.operations.avg, wasi_ops_avg)
            IN  IF s_fastest = Zero
                THEN [error |-> "ZeroDivisionError", printed |-> tables]
                ELSE
                LET s_done == [tables EXCEPT !.startup_ratios =
                        Ratios(py.startup.avg, node.startup.avg, wasi_startup_avg)]
                IN  IF o_fastest = Zero
                    THEN [error |-> "ZeroDivisionError", printed |-> s_done]
                    ELSE [error |-> "none", printed |->
                            [s_done EXCEPT
                                !.operation_ratios =
                                    Ratios(py.operations.avg, node.operations.avg,
                                           wasi_ops_avg),
                                !.summary = TRUE]]

---------------------------------------------------------------------------
(* benchmark_python.py: main(), one step per call or loop iteration        *)

MainInit ==
    /\ script = "benchmark_python"
    /\ pc = "main"
    /\ PYTHON_AVAILABLE \in BOOLEAN
    /\ hung = "none"
    /\ warm = 0
    /\ results = [startup |-> <<>>, operations |-> <<>>]
    /\ executed = [startup |-> <<>>, operations |-> <<>>]
    /\ python_results = None
    /\ nodejs_results = None
    /\ report = None
    /\ exit_code = -1
    /\ times = <<>>
    /\ startup_times = <<>>
    /\ operation_times = <<>>
    /\ startup_stats = None
    /\ operation_stats = None
    /\ ranking = <<>>
    /\ uncaught = "none"
    /\ summary = None
    /\ simple_summary = None

\* state of the simple benchmark and of the statistics harness
simple_vars == <<times, startup_times, operation_times, startup_stats,
                 operation_stats, ranking, summary, simple_summary>>

\* python_benchmark = PythonBenchmark(); run_benchmark() if PYTHON_AVAILABLE
MainStart ==
    /\ script = "benchmark_python"
    /\ pc = "main"
    /\ results' = [startup |-> <<>>, operations |-> <<>>]
    /\ IF PYTHON_AVAILABLE
       THEN /\ pc' = "warmup"
            /\ UNCHANGED python_results
       ELSE /\ pc' = "nodejs"
            /\ python_results' = None
    /\ UNCHANGED <<script, PYTHON_AVAILABLE, hung, warm, executed,
                   nodejs_results, report, exit_code, uncaught, simple_vars>>

\* one pass of "for _ in range(5)": the calls return, nothing is recorded
WarmupStep ==
    /\ script = "benchmark_python"
    /\ pc = "warmup"
    /\ hung = "none"
    /\ warm < WarmupIterations
    /\ warm' = warm + 1
    /\ pc' = IF warm' = WarmupIterations THEN "startup" ELSE "warmup"
    /\ UNCHANGED <<script, PYTHON_AVAILABLE, hung, results, executed,
                   python_results, nodejs_results, report, exit_code,
                   uncaught, simple_vars>>

\* one iteration of benchmark_python_startup
StartupStep(t) ==
    /\ script = "benchmark_python"
    /\ pc = "startup"
    /\ hung = "none"
    /\ Len(results.startup) < StartupIterations
    /\ results' = AppendSample(results, "startup", t)
    /\ executed' = [executed EXCEPT !.startup = Append(@, t)]
    /\ pc' = IF Len(results'.startup) >= StartupIterations
             THEN "operations" ELSE "startup"
    /\ UNCHANGED <<script, PYTHON_AVAILABLE, hung, warm, python_results,
                   nodejs_results, report, exit_code, uncaught, simple_vars>>

\* one iteration of benchmark_python_operations
OperationStep(t) ==
    /\ script = "benchmark_python"
    /\ pc = "operations"
    /\ hung = "none"
    /\ Len(results.operations) < OperationIterations
    /\ results' = AppendSample(results, "operations", t)
    /\ executed' = [executed EXCEPT !.operations = Append(@, t)]
    /\ pc' = IF Len(results'.operations) >= OperationIterations
             THEN "calculate_stats" ELSE "operations"
    /\ UNCHANGED <<script, PYTHON_AVAILABLE, hung, warm, python_results,
                   nodejs_results, report, exit_code, uncaught, simple_vars>>

\* a call into superconfig_ffi that never returns: nothing bounds the wait
InvokeHangs ==
    /\ pc \in {"warmup", "startup", "operations",
               "simple_startup", "simple_operations"}
    /\ hung = "none"
    /\ hung' = "python"
    /\ UNCHANGED <<script, pc, PYTHON_AVAILABLE, warm, results, executed,
                   python_results, nodejs_results, report, exit_code,
                   uncaught, simple_vars>>

\* the two calculate_stats calls and the return of run_benchmark
FinishRunBenchmark ==
    /\ script = "benchmark_python"
    /\ pc = "calculate_stats"
    /\ python_results' = RunBenchmarkResult(results)
    /\ pc' = "nodejs"
    /\ UNCHANGED <<script, PYTHON_AVAILABLE, hung, warm, results, executed,
                   nodejs_results, report, exit_code, uncaught, simple_vars>>

\* node exits 0 and prints the statistics of the addon
NodejsCompletes(startupTimes, opTimes) ==
    /\ script = "benchmark_python"
    /\ pc = "nodejs"
    /\ hung = "none"
    /\ nodejs_results' = NapiResults(startupTimes, opTimes)
    /\ pc' = "report"
    /\ UNCHANGED <<script, PYTHON_AVAILABLE, hung, warm, results, executed,
                   python_results, report, exit_code, uncaught, simple_vars>>

\* node exits 0 but the addon did not load: results.napi = { error }
NodejsAddonMissing ==
    /\ script = "benchmark_python"
    /\ pc = "nodejs"
    /\ hung = "none"
    /\ nodejs_results' = NapiError
    /\ pc' = "report"
    /\ UNCHANGED <<script, PYTHON_AVAILABLE, hung, warm, results, executed,
                   python_results, report, exit_code, uncaught, simple_vars>>

\* node exits non-zero, or subprocess.run / json.loads raises: None
NodejsFails ==
    /\ script = "benchmark_python"
    /\ pc = "nodejs"
    /\ hung = "none"
    /\ nodejs_results' = None
    /\ pc' = "report"
    /\ UNCHANGED <<script, PYTHON_AVAILABLE, hung, warm, results, executed,
                   python_results, report, exit_code, uncaught, simple_vars>>

\* the node process does not exit
NodejsHangs ==
    /\ script = "benchmark_python"
    /\ pc = "nodejs"
    /\ hung = "none"
    /\ hung' = "node"
    /\ UNCHANGED <<script, pc, PYTHON_AVAILABLE, warm, results, executed,
                   python_results, nodejs_results, report, exit_code,
                   uncaught, simple_vars>>

\* subprocess.run(timeout=60) raises TimeoutExpired, caught by "except Exception"
NodejsTimeout ==
    /\ script = "benchmark_python"
    /\ pc = "nodejs"
    /\ hung = "node"
    /\ hung' = "none"
    /\ nodejs_results' = None
    /\ pc' = "report"
    /\ UNCHANGED <<script, PYTHON_AVAILABLE, warm, results, executed,
                   python_results, report, exit_code, uncaught, simple_vars>>

\* print_comprehensive_results(python_results, nodejs_results)
PrintReport ==
    /\ script = "benchmark_python"
    /\ pc = "report"
    /\ LET r == PrintComprehensiveResults(python_results, nodejs_results)
       IN  /\ report' = r.printed
           /\ uncaught' = r.error
           /\ IF r.error = "none"
              THEN pc' = "epilogue" /\ UNCHANGED exit_code
              ELSE pc' = "done" /\ exit_code' = 1
    /\ UNCHANGED <<script, PYTHON_AVAILABLE, hung, warm, results, executed,
                   python_results, nodejs_results, simple_vars>>

\* the closing prints; main() returns and the interpreter exits
MainReturn ==
    /\ script = "benchmark_python"
    /\ pc = "epilogue"
    /\ pc' = "done"
    /\ exit_code' = 0
    /\ UNCHANGED <<script, PYTHON_AVAILABLE, hung, warm, results, executed,
                   python_results, nodejs_results, report, uncaught,
                   simple_vars>>

---------------------------------------------------------------------------
(* simple_python_benchmark.py                                              *)

\* figures "from previous benchmark", in milliseconds
napi_avg_ops == <<603, 500000>>
wasi_avg_ops == <<99, 250>>

\* values measure_time_ms can return, in milliseconds
SimpleDurations == {Zero, napi_avg_ops, wasi_avg_ops, <<2, 1>>}

\* results.sort(key=lambda x: x[1]): stable, entries are <<name, time>>
RECURSIVE InsertByTime(_, _)
InsertByTime(s, x) ==
    IF s = <<>> THEN <<x>>
    ELSE IF RatLt(x[2], Head(s)[2]) THEN <<x>> \o s
    ELSE <<Head(s)>> \o InsertByTime(Tail(s), x)

RECURSIVE SortByTime(_)
SortByTime(s) ==
    IF s = <<>> THEN <<>>
    ELSE InsertByTime(SortByTime(SubSeq(s, 1, Len(s) - 1)), s[Len(s)])

\* the results list, sorted
Ranking(python_avg) ==
    SortByTime(<< <<"NAPI", napi_avg_ops>>,
                  <<"Python", python_avg>>,
                  <<"WASI", wasi_avg_ops>> >>)

SimpleInit ==
    /\ script = "simple_python_benchmark"
    /\ pc = "import"
    /\ PYTHON_AVAILABLE \in BOOLEAN
    /\ hung = "none"
    /\ warm = 0
    /\ results = [startup |-> <<>>, operations |-> <<>>]
    /\ executed = [startup |-> <<>>, operations |-> <<>>]
    /\ python_results = None
    /\ nodejs_results = None
    /\ report = None
    /\ exit_code = -1
    /\ times = <<>>
    /\ startup_times = <<>>
    /\ operation_times = <<>>
    /\ startup_stats = None
    /\ operation_stats = None
    /\ ranking = <<>>
    /\ uncaught = "none"
    /\ summary = None
    /\ simple_summary = None

\* state of benchmark_python.py
main_vars == <<warm, results, python_results, nodejs_results, report>>

\* "import superconfig_ffi" at the top of the script, outside any try
SimpleImport ==
    /\ script = "simple_python_benchmark"
    /\ pc = "import"
    /\ IF PYTHON_AVAILABLE
       THEN pc' = "simple_startup" /\ UNCHANGED <<uncaught, exit_code>>
       ELSE pc' = "done" /\ uncaught' = "ImportError" /\ exit_code' = 1
    /\ UNCHANGED <<script, PYTHON_AVAILABLE, hung, executed, times,
                   startup_times, operation_times, startup_stats,
                   operation_stats, ranking, summary, simple_summary,
                   main_vars>>

\* one iteration of the instance creation loop
SimpleStartupStep(t) ==
    /\ script = "simple_python_benchmark"
    /\ pc = "simple_startup"
    /\ hung = "none"
    /\ Len(startup_times) < StartupIterations
    /\ startup_times' = Append(startup_times, t)
    /\ executed' = [executed EXCEPT !.startup = Append(@, t)]
    /\ pc' = IF Len(startup_times') >= StartupIterations
             THEN "simple_operations" ELSE "simple_startup"
    /\ UNCHANGED <<script, PYTHON_AVAILABLE, hung, exit_code, times,
                   operation_times, startup_stats, operation_stats, ranking,
                   uncaught, summary, simple_summary, main_vars>>

\* one iteration of the operation loop
SimpleOperationStep(t) ==
    /\ script = "simple_python_benchmark"
    /\ pc = "simple_operations"
    /\ hung = "none"
    /\ Len(operation_times) < OperationIterations
    /\ operation_times' = Append(operation_times, t)
    /\ executed' = [executed EXCEPT !.operations = Append(@, t)]
    /\ pc' = IF Len(operation_times') >= OperationIterations
             THEN "simple_stats" ELSE "simple_operations"
    /\ UNCHANGED <<script, PYTHON_AVAILABLE, hung, exit_code, times,
                   startup_times, startup_stats, operation_stats, ranking,
                   uncaught, summary, simple_summary, main_vars>>

\* startup_stats = calc_stats(startup_times); operation_stats = calc_stats(operation_times)
SimpleCalcStats ==
    /\ script = "simple_python_benchmark"
    /\ pc = "simple_stats"
    /\ startup_stats' = CalcStats(startup_times).ret
    /\ startup_times' = CalcStats(startup_times).times
    /\ operation_stats' = CalcStats(operation_times).ret
    /\ operation_times' = CalcStats(operation_times).times
    /\ pc' = "simple_report"
    /\ UNCHANGED <<script, PYTHON_AVAILABLE, hung, executed, exit_code, times,
                   ranking, uncaught, summary, simple_summary, main_vars>>

(* The ranking and the "Speed vs Python" lines: python_time / napi_avg_ops *)
(* and wasi_avg_ops / python_time, which raises when python_time is 0.     *)
SimpleReport ==
    /\ script = "simple_python_benchmark"
    /\ pc = "simple_report"
    /\ ranking' = Ranking(operation_stats.avg)
    /\ pc' = "done"
    /\ IF operation_stats.avg = Zero
       THEN uncaught' = "ZeroDivisionError" /\ exit_code' = 1
       ELSE UNCHANGED uncaught /\ exit_code' = 0
    /\ UNCHANGED <<script, PYTHON_AVAILABLE, hung, executed, times,
                   startup_times, operation_times, startup_stats,
                   operation_stats, summary, simple_summary, main_vars>>

---------------------------------------------------------------------------
(* The two scripts *)

Init == MainInit \/ SimpleInit

Next ==
    \/ MainStart
    \/ WarmupStep
    \/ \E t \in Durations : StartupStep(t)
    \/ \E t \in Durations : OperationStep(t)
    \/ InvokeHangs
    \/ FinishRunBenchmark
    \/ \E st \in [1..StartupIterations -> Durations],
          ot \in [1..OperationIterations -> Durations] : NodejsCompletes(st, ot)
    \/ NodejsAddonMissing
    \/ NodejsFails
    \/ NodejsHangs
    \/ NodejsTimeout
    \/ PrintReport
    \/ MainReturn
    \/ SimpleImport
    \/ \E t \in SimpleDurations : SimpleStartupStep(t)
    \/ \E t \in SimpleDurations : SimpleOperationStep(t)
    \/ SimpleCalcStats
    \/ SimpleReport

Spec == Init /\ [][Next]_vars

(* The interpreter keeps running the script: a step of the script that    *)
(* stays possible is eventually taken, and subprocess.run(timeout=60)     *)
(* gives up on a node process that does not exit.  Whether a call hangs   *)
(* is the environment's choice and is not forced.                         *)
Fairness ==
    /\ WF_vars(MainStart)
    /\ WF_vars(WarmupStep)
    /\ WF_vars(\E t \in Durations : StartupStep(t))
    /\ WF_vars(\E t \in Durations : OperationStep(t))
    /\ WF_vars(FinishRunBenchmark)
    /\ WF_vars(NodejsFails)
    /\ WF_vars(NodejsTimeout)
    /\ WF_vars(PrintReport)
    /\ WF_vars(MainReturn)

FairSpec == Spec /\ Fairness

---------------------------------------------------------------------------
(* The statistics routines applied to sample lists drawn from a bounded    *)
(* set: every list of up to MaxExhaustiveLen samples, and patterned lists  *)
(* (ramps, cycles, shuffles) of up to MaxLen samples.                      *)

HalfMs == NsPerMs \div 2
TickNs(k) == k * HalfMs

ExhaustiveLists ==
    UNION {[1..n -> {TickNs(k) : k \in 0..MaxTick}] : n \in 0..MaxExhaustiveLen}

Pattern(n, stride, modulus) == [i \in 1..n |-> TickNs((i * stride) % modulus)]

PatternLists ==
    {Pattern(n, stride, modulus) :
        n \in 1..MaxLen, stride \in 1..MaxStride, modulus \in 1..(MaxLen + 1)}

StatsInputs == ExhaustiveLists \cup PatternLists

Idle ==
    /\ PYTHON_AVAILABLE = TRUE
    /\ hung = "none"
    /\ warm = 0
    /\ results = [startup |-> <<>>, operations |-> <<>>]
    /\ executed = [startup |-> <<>>, operations |-> <<>>]
    /\ python_results = None
    /\ nodejs_results = None
    /\ report = None
    /\ exit_code = -1
    /\ operation_times = <<>>
    /\ startup_stats = None
    /\ operation_stats = None
    /\ ranking = <<>>
    /\ uncaught = "none"

StatsInit ==
    /\ script = "stats"
    /\ pc = "call_calculate_stats"
    /\ times \in StatsInputs
    /\ startup_times = TimesMs(times)
    /\ summary = None
    /\ simple_summary = None
    /\ Idle

ApplyCalculateStats ==
    /\ script = "stats"
    /\ pc = "call_calculate_stats"
    /\ summary' = CalculateStats(times)
    /\ pc' = "call_calc_stats"
    /\ UNCHANGED <<script, PYTHON_AVAILABLE, hung, warm, results, executed,
                   python_results, nodejs_results, report, exit_code, times,
                   startup_times, operation_times, startup_stats,
                   operation_stats, ranking, uncaught, simple_summary>>

ApplyCalcStats ==
    /\ script = "stats"
    /\ pc = "call_calc_stats"
    /\ simple_summary' = CalcStats(startup_times).ret
    /\ startup_times' = CalcStats(startup_times).times
    /\ pc' = "returned"
    /\ UNCHANGED <<script, PYTHON_AVAILABLE, hung, warm, results, executed,
                   python_results, nodejs_results, report, exit_code, times,
                   operation_times, startup_stats, operation_stats, ranking,
                   uncaught, summary>>

StatsNext == ApplyCalculateStats \/ ApplyCalcStats

StatsSpec == StatsInit /\ [][StatsNext]_vars

---------------------------------------------------------------------------
(* Properties *)

Main == script = "benchmark_python"
Simple == script = "simple_python_benchmark"
Stats == script = "stats"

\* the report has been printed (or the printing raised)
Reported == Main /\ pc \in {"epilogue", "done"}

\* an adapter's result that holds its startup and operations statistics
ProducedData(r) == Truthy(r) /\ "startup" \in DOMAIN r

Min2(a, b) == IF a <= b THEN a ELSE b

(* C1: whenever exactly one of the two adapters fails (python_results or   *)
(* nodejs_results is None) the run does not abort and the report holds the *)
(* startup and operations results of the other adapter, with a skipped     *)
(* (N/A) entry for the failed one.                                         *)
C1_FailureIsolation ==
    (/\ Reported
     /\ \/ python_results = None /\ ProducedData(nodejs_results)
        \/ ProducedData(python_results) /\ nodejs_results = None)
    => /\ uncaught = "none"
       /\ report.startup.kind = "dict"
       /\ report.operations.kind = "dict"
       /\ \/ report.python_size.kind = "N/A"
          \/ report.napi_size.kind = "N/A"

(* C2: in run_benchmark no sample is recorded before all warmup calls      *)
(* have completed, the samples of each scenario are in results in the      *)
(* order they were measured, and once run_benchmark has returned each list *)
(* holds one sample per measured iteration.                                *)
C2_WarmupBeforeMeasurement ==
    Main =>
      /\ (results.startup # <<>> \/ results.operations # <<>>)
            => warm = WarmupIterations
      /\ pc = "warmup" => results = [startup |-> <<>>, operations |-> <<>>]
      /\ results.startup = executed.startup
      /\ results.operations = executed.operations
      /\ (PYTHON_AVAILABLE /\ pc \in {"nodejs", "report", "epilogue", "done"})
            => /\ Len(results.startup) = StartupIterations
               /\ Len(results.operations) = OperationIterations

\* run_benchmark has returned with samples that differ, so their order shows
C2_Witness ==
    /\ Main
    /\ pc = "nodejs"
    /\ warm = WarmupIterations
    /\ Len(results.startup) = StartupIterations
    /\ results.startup[1] # results.startup[2]
    /\ results.operations[1] # results.operations[2]
    /\ python_results.startup.count = StartupIterations

(* C3: an adapter invocation of main() that never returns is given up once *)
(* its deadline expires, and the run goes on to print the report and end.  *)
C3_HungAdapterNeverBlocks ==
    (Main /\ hung # "none") ~> (hung = "none" /\ pc = "done")

(* C4: main() ends with exit code 0 exactly when at least one adapter      *)
(* produced data, and with a non-zero exit code when both were skipped or  *)
(* failed.                                                                 *)
C4_ExitStatusReflectsData ==
    (Main /\ pc = "done")
    => (exit_code = 0
        <=> (ProducedData(python_results) \/ ProducedData(nodejs_results)))

IsAtSortedIndex(v, s, k) ==
    /\ v \in Range(s)
    /\ Cardinality({i \in 1..Len(s) : RatLt(s[i], v)}) <= k
    /\ Cardinality({i \in 1..Len(s) : RatLeq(s[i], v)}) > k

\* floor(pct/100 * n) clamped to n - 1
ClampedFloorIndex(n, pct) == Min2((pct * n) \div 100, n - 1)

\* the list lengths the scripts themselves produce
ScriptLengths == {50, 100, 1000}

(* C6: for a non-empty list of n samples the p95 and p99 reported by both  *)
(* routines are the elements of the ascending-sorted samples at index      *)
(* floor(p * n) clamped to n - 1, and the index the code uses is within    *)
(* 0..n-1 (also for the lengths 50, 100 and 1000 the scripts produce).     *)
C6_PercentileDefinition ==
    (Stats /\ times # <<>>)
    => LET n == Len(times)
           ms == TimesMs(times)
       IN  /\ \A k \in ScriptLengths :
                /\ P95Index(k) = ClampedFloorIndex(k, 95)
                /\ P99Index(k) = ClampedFloorIndex(k, 99)
                /\ P99Index(k) \in 0..(k - 1)
           /\ P95Index(n) = ClampedFloorIndex(n, 95)
           /\ P99Index(n) = ClampedFloorIndex(n, 99)
           /\ P95Index(n) \in 0..(n - 1)
           /\ P99Index(n) \in 0..(n - 1)
           /\ pc # "call_calculate_stats"
                => /\ IsAtSortedIndex(summary.p95, ms, ClampedFloorIndex(n, 95))
                   /\ IsAtSortedIndex(summary.p99, ms, ClampedFloorIndex(n, 99))
           /\ pc = "returned"
                => /\ IsAtSortedIndex(simple_summary.p95, ms, ClampedFloorIndex(n, 95))
                   /\ IsAtSortedIndex(simple_summary.p99, ms, ClampedFloorIndex(n, 99))

\* more than 20 distinct samples: p95 and p99 are different elements
C6_Witness ==
    /\ Stats
    /\ pc = "returned"
    /\ Len(times) > 20
    /\ RatLt(summary.p95, summary.p99)
    /\ simple_summary.p95 = summary.p95

\* lexicographic order of the labels
LabelRank(l) == CASE l = "NAPI" -> 1 [] l = "Python" -> 2 [] l = "WASI" -> 3

\* the label of the smallest mean, the smaller label on a tie
FirstRanked(py, napi, wasi) ==
    IF RatLeq(napi, py) /\ RatLeq(napi, wasi) THEN "NAPI"
    ELSE IF RatLeq(py, wasi) THEN "Python"
    ELSE "WASI"

(* C7: adapters are ranked ascending by mean and, on equal means, by       *)
(* label (NAPI < Python < WASI): in the sorted ranking of the simple       *)
(* benchmark and in the "Fastest" column of the comprehensive comparison.  *)
C7_DeterministicTieBreaking ==
    /\ (Reported /\ uncaught = "none" /\ report.startup.kind = "dict")
        => /\ report.startup.fastest_avg =
                FirstRanked(python_results.startup.avg,
                            nodejs_results.startup.avg, wasi_startup_avg)
           /\ report.operations.fastest_avg =
                FirstRanked(python_results.operations.avg,
                            nodejs_results.operations.avg, wasi_ops_avg)
    /\ (Simple /\ ranking # <<>>)
        => \A i, j \in 1..Len(ranking) :
              i < j => \/ RatLt(ranking[i][2], ranking[j][2])
                       \/ /\ ranking[i][2] = ranking[j][2]
                          /\ LabelRank(ranking[i][1]) < LabelRank(ranking[j][1])

\* the three ratios of one row: the fastest is 1, the others at least 1
RatiosOfFastest(r, py, napi, wasi) ==
    /\ r.kind = "dict"
    /\ \A l \in {"Python", "NAPI", "WASI"} : RatLeq(One, r[l])
    /\ r[FastestLabel(py, napi, wasi)] = One

(* C8: whenever both adapters report means (all non-negative) the          *)
(* comparison yields, for startup and for operations, a ratio to the       *)
(* fastest for every adapter: 1 for the fastest, at least 1 for the rest,  *)
(* also when the smallest mean is 0.                                       *)
C8_RatioToFastest ==
    (Reported /\ ProducedData(python_results) /\ ProducedData(nodejs_results))
    => /\ RatiosOfFastest(report.startup_ratios, python_results.startup.avg,
                          nodejs_results.startup.avg, wasi_startup_avg)
       /\ RatiosOfFastest(report.operation_ratios, python_results.operations.avg,
                          nodejs_results.operations.avg, wasi_ops_avg)

(* C9: computing the statistics leaves the recorded samples in their       *)
(* insertion order: self.results after calculate_stats, startup_times and  *)
(* operation_times after calc_stats.                                       *)
C9_StatsLeaveSamplesUnchanged ==
    /\ (Main /\ ProducedData(python_results)) => results = executed
    /\ (Simple /\ pc \in {"simple_report", "done"} /\ Truthy(startup_stats))
        => /\ startup_times = executed.startup
           /\ operation_times = executed.operations

(* C10: for a non-empty list calculate_stats returns count = length,       *)
(* min <= median <= max, min <= p95 <= p99 <= max, and for fewer than 20   *)
(* samples p95 and p99 are both the largest sample.                        *)
C10_SummaryOrdering ==
    (Stats /\ pc # "call_calculate_stats" /\ times # <<>>)
    => /\ summary.count = Len(times)
       /\ RatLeq(summary.min, summary.median)
       /\ RatLeq(summary.median, summary.max)
       /\ RatLeq(summary.min, summary.p95)
       /\ RatLeq(summary.p95, summary.p99)
       /\ RatLeq(summary.p99, summary.max)
       /\ Len(times) < 20
            => /\ summary.p95 = summary.p99
               /\ \A i \in 1..Len(times) : RatLeq(ToMs(times[i]), summary.p99)

\* fewer than 20 samples, recorded out of order, with a spread
C10_Witness ==
    /\ Stats
    /\ pc = "returned"
    /\ Len(times) \in 3..19
    /\ times[1] > times[Len(times)]
    /\ RatLt(summary.min, summary.median)
    /\ RatLt(summary.median, summary.max)
    /\ summary.p95 = summary.max

===========================================================================
